---- MODULE Spec2Model ----
(***************************************************************************)
(* Agri-Vision (src/agrivision.py): the run-time loop of class AgriVision  *)
(* and the stages it calls every cycle.                                    *)
(*                                                                         *)
(* Representation.                                                         *)
(*   - A Python value that may be None is a sequence: <<>> is None and     *)
(*     <<x>> is the value x.                                               *)
(*   - A frame is known by its content only: frame 0 is the all-zero image *)
(*     np.zeros((CAMERA_HEIGHT, CAMERA_WIDTH, 3)), frames 1..MaxFrame are  *)
(*     other contents.  np.all(bgr == self.images[i]) is equality of       *)
(*     contents.                                                           *)
(*   - A mask is known by its column sums, a sequence of CAMERA_WIDTH      *)
(*     naturals (mask.sum(axis=0)); column c of the code is element c+1.   *)
(*   - A PID coefficient is a number of halves (exact in floating point).  *)
(*   - A voltage is a number of hundredths of a volt.                      *)
(*                                                                         *)
(* Specifications.                                                         *)
(*   Spec         run(), one step per statement of the loop body           *)
(*   SpecHistory  estimate_row called cycle after cycle, estimates kept    *)
(*   SpecControl  run() with the three acquisition statements in one step, *)
(*                failed writes and sample-less cycles counted             *)
(*   SpecFind     find_offset applied to one mask of a given width         *)
(*   SpecLaw      calculate_output applied to two estimates                *)
(*   SpecDisplay  the update_display threads, statement by statement       *)
(***************************************************************************)
EXTENDS Integers, Sequences, FiniteSets, TLC

VARIABLES
    config,          \* the attributes set from the configuration file
    self_images,     \* self.images
    offset_history,  \* self.offset_history
    self_pwm,        \* self.pwm
    self_average,    \* self.average
    self_estimated,  \* self.estimated
    self_volts,      \* self.volts   (<<>> while the attribute is not set)
    pc,              \* the statement of run() that executes next
    images,          \* the locals of run()
    masks,
    offsets,
    sums,
    est,
    avg,
    diff,
    pwm,
    volts,
    written,         \* what set_controller wrote to the serial port this cycle
    db_inserted,     \* this cycle's sample was inserted in the collection
    file_logged,     \* this cycle's record was written to the log file
    display_started, \* this cycle started an update_display thread
    controller,      \* self.controller (<<>> when init_controller failed)
    reads,           \* per camera: what its latest read() did ("ok", "failed",
                     \* or "none" before the first) and the last frame it returned
    healthy,         \* per camera: every read so far returned a frame that
                     \* differs from the one before it
    delivered,       \* the cameras whose frame the latest capture appended
    raised,          \* the stage whose exception left it in the latest cycle
    fused,           \* <<the estimates estimate_row appended so far>> where
                     \* they are recorded (SpecHistory), else None
    closing,         \* <<what close() did>> once it was called, else None
    attempted,       \* <<the command set_controller tried to write this cycle>>
    link_failed,     \* <<a call of set_controller did not get its command
                     \* written>> where it is recorded (SpecControl), else None
    probe,           \* the arguments with which a function of the program is
                     \* applied on its own (SpecFind, SpecLaw), else None
    found,           \* <<what that function returned>>, None before it returns
    warned,          \* find_offset printed "WARNING" for the mask (SpecFind)
    updating,        \* self.updating
    threads,         \* the update_display threads started so far: where each
                     \* is in update_display (SpecDisplay)
    starved          \* <<how many of the latest calls of estimate_row, in a
                     \* row, got no sample (counted up to NUM_AVERAGES + 1)>>
                     \* where it is recorded (SpecControl), else None

vars == <<config, self_images, offset_history, self_pwm,
          self_average, self_estimated, self_volts, pc, images, masks,
          offsets, sums, est, avg, diff, pwm, volts, written, db_inserted,
          file_logged, display_started, controller, reads, healthy,
          delivered, raised, fused, closing, attempted,
          link_failed, starved, probe, found, warned, updating,
          threads>>

selfVars == <<self_images, offset_history, self_pwm,
              self_average, self_estimated, self_volts>>

localVars == <<images, masks, offsets, sums, est, avg, diff, pwm, volts>>

outVars == <<written, attempted, db_inserted, file_logged, display_started, raised>>

camVars == <<reads, healthy, delivered>>

sideVars == <<probe, found, warned, updating, threads>>

-----------------------------------------------------------------------------
(* Bounds of the model *)

MaxFrame == 1        \* frame contents are 0..MaxFrame
MaxAverages == 2     \* NUM_AVERAGES is drawn from 0..MaxAverages
CAMERA_WIDTH == 4    \* columns of a mask (after the swap of init_cameras)
MaxFused == MaxAverages + 2   \* estimates that fused records
MaxWidth == 24       \* find_offset on its own: masks of 1..MaxWidth columns
SmallWidth == 4      \* ... every mask of up to SmallWidth columns
MaxEnergy == 2       \* ... with column sums 0..MaxEnergy
MaxThreads == 4      \* update_display threads started in SpecDisplay

(* Program constants *)

CAMERAS == 2                  \* the log header names cam0 and cam1
THRESHOLD_PERCENTILE == 95    \* "the 95th percentile threshold"

None == <<>>
Some(x) == <<x>>

Min(a, b) == IF a <= b THEN a ELSE b

\* int(x) of a rational a/b, b > 0: truncation toward zero
TruncDiv(a, b) == IF a >= 0 THEN a \div b ELSE -((-a) \div b)

\* round(x) of a rational a/b, b > 0: nearest, halves away from zero
RoundDiv(a, b) ==
    IF a >= 0 THEN (2 * a + b) \div (2 * b) ELSE -((2 * (-a) + b) \div (2 * b))

RECURSIVE SumSeq(_)
SumSeq(s) == IF s = <<>> THEN 0 ELSE Head(s) + SumSeq(Tail(s))

\* init_cameras: self.CAMERA_CENTER = self.CAMERA_WIDTH / 2 (integer division)
CAMERA_CENTER == CAMERA_WIDTH \div 2

\* The same for a camera configured with another width
CenterOf(width) == width \div 2

Frames == 0 .. MaxFrame

\* np.zeros((self.CAMERA_HEIGHT, self.CAMERA_WIDTH, 3), np.uint8)
ZerosImage == 0

-----------------------------------------------------------------------------
(* The configuration *)

PWM_MIN == config.PWM_MIN
PWM_MAX == config.PWM_MAX
P_COEF == config.P_COEF
I_COEF == config.I_COEF
D_COEF == config.D_COEF
NUM_AVERAGES == config.NUM_AVERAGES
MIN_VOLTAGE == config.MIN_VOLTAGE
MAX_VOLTAGE == config.MAX_VOLTAGE
MONGO_ON == config.MONGO_ON
LOGFILE_ON == config.LOGFILE_ON
DISPLAY_ON == config.DISPLAY_ON

\* init_pid: self.CENTER_PWM = int(self.PWM_MIN + self.PWM_MAX / 2.0)
CENTER_PWM == TruncDiv(2 * PWM_MIN + PWM_MAX, 2)

-----------------------------------------------------------------------------
(* capture_images *)

\* What self.cameras[i].read() does: it raises, or returns (False, None),
\* or returns (True, bgr).
ReadResults ==
    {[kind |-> "raise", bgr |-> ZerosImage], [kind |-> "fail", bgr |-> ZerosImage]}
        \cup {[kind |-> "ok", bgr |-> f] : f \in Frames}

\* One pass of the for loop for camera i-1 (i counts from 1).  held is
\* self.images, which the else branch assigns in place; imgs is the list
\* that capture_images returns; got is the set of cameras whose frame was
\* appended to it.  An index past the end of self.images raises IndexError
\* inside the try, which the bare except turns into a None slot.
CaptureOne(i, held, imgs, got, rd) ==
    IF rd.kind = "raise" THEN <<held, Append(imgs, None), got>>
    ELSE IF i > Len(held) THEN <<held, Append(imgs, None), got>>
    ELSE IF rd.kind = "ok" /\ held[i] # None
         THEN IF Some(rd.bgr) = held[i]
                 THEN <<held, Append(imgs, None), got>>
                 ELSE <<held, Append(imgs, Some(rd.bgr)), got \cup {i}>>
         ELSE <<[held EXCEPT ![i] = Some(ZerosImage)], imgs, got>>

RECURSIVE CaptureLoop(_, _, _, _, _)
CaptureLoop(i, held, imgs, got, rd) ==
    IF i > CAMERAS THEN <<held, imgs, got>>
    ELSE LET r == CaptureOne(i, held, imgs, got, rd[i])
         IN  CaptureLoop(i + 1, r[1], r[2], r[3], rd)

-----------------------------------------------------------------------------
(* plant_filter *)

\* For each image: an absent image gives an absent mask; a present image
\* gives its mask, or nothing at all when the conversion raises.
\* made[k] is <<column sums>> when the mask of image k is computed and None
\* when cv2 / numpy raise on it.
RECURSIVE FilterLoop(_, _, _, _)
FilterLoop(k, imgs, made, out) ==
    IF k > Len(imgs) THEN out
    ELSE IF imgs[k] = None THEN FilterLoop(k + 1, imgs, made, Append(out, None))
    ELSE IF made[k] = None THEN FilterLoop(k + 1, imgs, made, out)
    ELSE FilterLoop(k + 1, imgs, made, Append(out, made[k]))

-----------------------------------------------------------------------------
(* find_offset *)

SortedAsc(s) == SortSeq(s, LAMBDA a, b : a < b)

\* The percentile without interpolation: the order statistic below the rank
PercentileLower100(column_sum, q) ==
    100 * SortedAsc(column_sum)[(q * (Len(column_sum) - 1)) \div 100 + 1]

\* 100 * np.percentile(column_sum, q): linear interpolation between the two
\* order statistics around rank q/100 * (n-1)
Percentile100(column_sum, q) ==
    LET n == Len(column_sum)
        a == SortedAsc(column_sum)
        lo == (q * (n - 1)) \div 100
        fr == (q * (n - 1)) % 100
        hi == Min(lo + 1, n - 1)
    IN  a[lo + 1] * (100 - fr) + a[hi + 1] * fr

\* np.nonzero(column_sum >= threshold)[0]: the columns (from 0), ascending
Probable(column_sum) ==
    LET t == Percentile100(column_sum, THRESHOLD_PERCENTILE)
    IN  SelectSeq([c \in 1 .. Len(column_sum) |-> c - 1],
                  LAMBDA c : 100 * column_sum[c + 1] >= t)

\* int(np.median(p)) of a non-empty ascending sequence of naturals
MedianInt(p) ==
    LET k == Len(p)
    IN  IF k % 2 = 1 THEN p[(k + 1) \div 2]
        ELSE TruncDiv(p[k \div 2] + p[k \div 2 + 1], 2)

\* num_probable == self.CAMERA_WIDTH * self.THRESHOLD_PERCENTILE / 100.0, with
\* self.CAMERA_WIDTH = width
DegenerateWarningAt(column_sum, width) ==
    100 * Len(Probable(column_sum)) = width * THRESHOLD_PERCENTILE

DegenerateWarning(column_sum) == DegenerateWarningAt(column_sum, CAMERA_WIDTH)

\* The body of the try without "- self.CAMERA_CENTER"
FindOffsetUncentered(column_sum, center) ==
    LET p == Probable(column_sum)
    IN  IF p = <<>> THEN None
        ELSE LET best == MedianInt(p)
             IN  Some(<<best, column_sum[best + 1]>>)

\* The body of the try for one mask, with self.CAMERA_CENTER = center: None
\* when it raises (the median of no column is nan and int(nan) raises), else
\* <<<<centroid, sum>>>>.
FindOffsetAt(column_sum, center) ==
    LET p == Probable(column_sum)
    IN  IF p = <<>> THEN None
        ELSE LET best == MedianInt(p)
             IN  Some(<<best - center, column_sum[best + 1]>>)

FindOffsetOne(column_sum) == FindOffsetAt(column_sum, CAMERA_CENTER)

\* find_offset(masks): the pairs (centroid, sum) of the masks that are
\* present and did not raise, in order
RECURSIVE FindLoop(_, _, _)
FindLoop(k, mks, out) ==
    IF k > Len(mks) THEN out
    ELSE IF mks[k] = None THEN FindLoop(k + 1, mks, out)
    ELSE LET r == FindOffsetOne(mks[k][1])
         IN  FindLoop(k + 1, mks, IF r = None THEN out ELSE Append(out, r[1]))

FindOffsets(mks) == [k \in 1 .. Len(FindLoop(1, mks, <<>>)) |-> FindLoop(1, mks, <<>>)[k][1]]
FindSums(mks) == [k \in 1 .. Len(FindLoop(1, mks, <<>>)) |-> FindLoop(1, mks, <<>>)[k][2]]

-----------------------------------------------------------------------------
(* estimate_row *)

\* The first sample whatever its strength
ArgFirst(s) == 1

\* np.argmax(sums): the first index (from 1) of the greatest element
ArgMax(s) == CHOOSE k \in 1 .. Len(s) :
                /\ \A j \in 1 .. Len(s) : s[j] <= s[k]
                /\ \A j \in 1 .. (k - 1) : s[j] < s[k]

\* est = indices[np.argmax(sums)]; argmax of an empty array raises and the
\* except sets est = self.CAMERA_CENTER
InstantEstimate(indices, sms) ==
    IF sms = <<>> THEN CAMERA_CENTER ELSE indices[ArgMax(sms)]

\* Evict with the newest entries dropped instead of the oldest
EvictNewest(h, cap) == IF Len(h) > cap THEN SubSeq(h, 1, cap) ELSE h

\* self.offset_history.append(est); while len > NUM_AVERAGES: pop(0)
RECURSIVE Evict(_, _)
Evict(h, cap) == IF Len(h) > cap THEN Evict(Tail(h), cap) ELSE h

PushHistory(h, e, cap) == Evict(Append(h, e), cap)

\* The mean rounded down
MeanFloor(h) == SumSeq(h) \div Len(h)

\* int(np.mean(h)) of a non-empty history
MeanInt(h) == TruncDiv(SumSeq(h), Len(h))

-----------------------------------------------------------------------------
(* calculate_output *)

\* Clamp without its upper test
ClampLowOnly(x, lo, hi) == IF x < lo THEN lo ELSE x

\* if pwm > PWM_MAX: pwm = PWM_MAX elif pwm < PWM_MIN: pwm = PWM_MIN
Clamp(x, lo, hi) == IF x > hi THEN hi ELSE IF x < lo THEN lo ELSE x

\* The proportional term subtracted instead of added
RawPwmReversed(estimate, average, d) ==
    TruncDiv(average * I_COEF[1] + d * D_COEF[1] + 2 * CENTER_PWM
                 - estimate * P_COEF[1], 2)

\* int(p + i + d + self.CENTER_PWM), the coefficients in halves
RawPwm(estimate, average, d) ==
    TruncDiv(estimate * P_COEF[1] + average * I_COEF[1] + d * D_COEF[1]
                 + 2 * CENTER_PWM, 2)

\* round(pwm * (MAX_VOLTAGE - MIN_VOLTAGE) / (PWM_MAX - PWM_MIN) + MIN_VOLTAGE, 2)
\* in hundredths of a volt, for PWM_MAX # PWM_MIN; the division is taken as
\* true division (a float among the configured values)
Volts(command) ==
    LET num == command * (MAX_VOLTAGE - MIN_VOLTAGE)
                  + MIN_VOLTAGE * (PWM_MAX - PWM_MIN)
        den == PWM_MAX - PWM_MIN
    IN  IF den > 0 THEN RoundDiv(num, den) ELSE RoundDiv(-num, -den)

\* The try block raises when a coefficient is missing or unusable, or when
\* PWM_MAX = PWM_MIN divides by zero.
ControlLawFails ==
    \/ P_COEF = None
    \/ I_COEF = None
    \/ D_COEF = None
    \/ PWM_MAX = PWM_MIN

\* What calculate_output does: when the try block raises, the except sets
\* pwm = CENTER_PWM and leaves volts unassigned, so "return pwm, volts"
\* raises UnboundLocalError; otherwise it returns (pwm, volts).
CalculateOutput(estimate, average, d) ==
    IF ControlLawFails
       THEN [raised |-> TRUE, pwm |-> CENTER_PWM, volts |-> 0]
       ELSE LET c == Clamp(RawPwm(estimate, average, d), PWM_MIN, PWM_MAX)
            IN  [raised |-> FALSE, pwm |-> Clamp(c, PWM_MIN, PWM_MAX),
                 volts |-> Volts(c)]

-----------------------------------------------------------------------------
(* The state after AgriVision(CONFIG_FILE) *)

\* The installations of the model: the actuator range, the PID coefficients
\* (halves; None when the key is missing or not a number), the feature
\* toggles MONGO_ON, LOGFILE_ON and DISPLAY_ON, whether init_log could open
\* the log file (LOG), and whether SERIAL_DEVICE
\* can be opened; each with every window size 0 .. MaxAverages.
Settings ==
    { [PWM_MIN |-> 1000, PWM_MAX |-> 2000, P_COEF |-> Some(0),
       I_COEF |-> Some(0), D_COEF |-> Some(0), ON |-> TRUE, SERIAL |-> TRUE,
       LOG |-> TRUE],
      [PWM_MIN |-> 0, PWM_MAX |-> 8, P_COEF |-> Some(5),
       I_COEF |-> Some(1), D_COEF |-> Some(-1), ON |-> TRUE, SERIAL |-> TRUE,
       LOG |-> FALSE],
      [PWM_MIN |-> 0, PWM_MAX |-> 8, P_COEF |-> Some(-1),
       I_COEF |-> Some(0), D_COEF |-> Some(1), ON |-> FALSE, SERIAL |-> FALSE,
       LOG |-> TRUE],
      [PWM_MIN |-> 1000, PWM_MAX |-> 2000, P_COEF |-> None,
       I_COEF |-> Some(0), D_COEF |-> Some(0), ON |-> TRUE, SERIAL |-> TRUE,
       LOG |-> TRUE],
      [PWM_MIN |-> 5, PWM_MAX |-> 5, P_COEF |-> Some(0),
       I_COEF |-> Some(0), D_COEF |-> Some(0), ON |-> FALSE, SERIAL |-> FALSE,
       LOG |-> FALSE] }

Configs ==
    { [PWM_MIN |-> p.PWM_MIN, PWM_MAX |-> p.PWM_MAX, P_COEF |-> p.P_COEF,
       I_COEF |-> p.I_COEF, D_COEF |-> p.D_COEF, NUM_AVERAGES |-> n,
       MIN_VOLTAGE |-> 0, MAX_VOLTAGE |-> 500,
       MONGO_ON |-> p.ON, LOGFILE_ON |-> p.ON, DISPLAY_ON |-> p.ON,
       SERIAL |-> p.SERIAL, LOG |-> p.LOG]
      : p \in Settings, n \in 0 .. MaxAverages }

\* The column sums of the masks that plant_filter produces
Spike(c, s) == [k \in 1 .. CAMERA_WIDTH |-> IF k = c + 1 THEN s ELSE 0]
Profiles == { Spike(0, 2), Spike(CAMERA_WIDTH - 1, 3) }

NoRead == [kind |-> "none", bgr |-> ZerosImage]

ResetLocals ==
    /\ images' = <<>>
    /\ masks' = <<>>
    /\ offsets' = <<>>
    /\ sums' = <<>>
    /\ est' = 0
    /\ avg' = 0
    /\ diff' = 0
    /\ pwm' = 0
    /\ volts' = 0

Init ==
    /\ config \in Configs
    \* init_cameras: one zero image per attached camera
    /\ self_images = [i \in 1 .. CAMERAS |-> Some(ZerosImage)]
    \* init_pid
    /\ offset_history = [k \in 1 .. NUM_AVERAGES |-> CAMERA_CENTER]
    /\ self_average = 0
    /\ self_estimated = 0
    /\ self_pwm = 0
    /\ self_volts = None
    \* init_controller: serial.Serial(...) returns the handle or raises
    /\ controller = IF config.SERIAL THEN Some("open") ELSE None
    /\ pc = "capture"
    /\ images = <<>>
    /\ masks = <<>>
    /\ offsets = <<>>
    /\ sums = <<>>
    /\ est = 0
    /\ avg = 0
    /\ diff = 0
    /\ pwm = 0
    /\ volts = 0
    /\ written = None
    /\ db_inserted = FALSE
    /\ file_logged = FALSE
    /\ display_started = FALSE
    /\ reads = [i \in 1 .. CAMERAS |-> NoRead]
    /\ healthy = [i \in 1 .. CAMERAS |-> TRUE]
    /\ delivered = {}
    /\ raised = ""
    /\ fused = None
    /\ closing = None
    /\ attempted = None
    /\ link_failed = None
    /\ starved = None
    /\ probe = None
    /\ found = None
    /\ warned = FALSE
    /\ updating = FALSE
    /\ threads = <<>>

-----------------------------------------------------------------------------
(* run: one action per statement of the loop body *)

\* "except UnboundLocalError: pass": the rest of the body is skipped and the
\* while loop starts the next cycle
Absorb(stage) ==
    /\ raised' = stage
    /\ pc' = "capture"
    /\ ResetLocals

\* images = self.capture_images()
CaptureImages ==
    /\ pc = "capture"
    /\ \E rd \in [1 .. CAMERAS -> ReadResults] :
          LET r == CaptureLoop(1, self_images, <<>>, {}, rd)
          IN  /\ self_images' = r[1]
              /\ images' = r[2]
              /\ delivered' = r[3]
              /\ reads' = [i \in 1 .. CAMERAS |->
                             IF rd[i].kind = "ok"
                                THEN [kind |-> "ok", bgr |-> rd[i].bgr]
                                ELSE [kind |-> "failed", bgr |-> reads[i].bgr]]
              /\ healthy' = [i \in 1 .. CAMERAS |->
                               /\ healthy[i]
                               /\ rd[i].kind = "ok"
                               /\ rd[i].bgr # reads[i].bgr]
    /\ pc' = "filter"
    /\ written' = None
    /\ attempted' = None
    /\ db_inserted' = FALSE
    /\ file_logged' = FALSE
    /\ display_started' = FALSE
    /\ raised' = ""
    /\ UNCHANGED <<config, controller, sideVars, fused, closing, link_failed,
                   starved, offset_history, self_pwm, self_average,
                   self_estimated, self_volts, masks, offsets, sums, est,
                   avg, diff, pwm, volts>>

\* masks = self.plant_filter(images)
PlantFilter ==
    /\ pc = "filter"
    /\ \E made \in [1 .. Len(images) -> {None} \cup {Some(p) : p \in Profiles}] :
          /\ \A k \in 1 .. Len(images) : images[k] = None => made[k] = None
          /\ masks' = FilterLoop(1, images, made, <<>>)
    /\ pc' = "find"
    /\ UNCHANGED <<config, controller, sideVars, fused, closing, link_failed,
                   starved, camVars, selfVars, outVars, images, offsets,
                   sums, est, avg, diff, pwm, volts>>

\* offsets, sums = self.find_offset(masks)
FindOffset ==
    /\ pc = "find"
    /\ offsets' = FindOffsets(masks)
    /\ sums' = FindSums(masks)
    /\ pc' = "estimate"
    /\ UNCHANGED <<config, controller, sideVars, fused, closing, link_failed,
                   starved, camVars, selfVars, outVars, images, masks, est,
                   avg, diff, pwm, volts>>

\* (est, avg, diff) = self.estimate_row(offsets, sums).  np.mean of an empty
\* history is nan and int(nan) raises ValueError, which nothing catches:
\* it leaves estimate_row and run.
EstimateRow ==
    /\ pc = "estimate"
    /\ LET e == InstantEstimate(offsets, sums)
           h == PushHistory(offset_history, e, NUM_AVERAGES)
       IN  /\ offset_history' = h
           /\ starved' = IF starved = None THEN None
                         ELSE IF offsets = <<>>
                            THEN Some(Min(starved[1] + 1, NUM_AVERAGES + 1))
                            ELSE Some(0)
           /\ fused' = IF fused # None /\ Len(fused[1]) < MaxFused
                           THEN Some(Append(fused[1], e))
                           ELSE None
           /\ IF h = <<>>
                 THEN /\ pc' = "crashed"
                      /\ raised' = "estimate_row"
                      /\ UNCHANGED <<est, avg, diff>>
                 ELSE /\ est' = e
                      /\ avg' = MeanInt(h)
                      /\ diff' = e - MeanInt(h)
                      /\ pc' = "output"
                      /\ UNCHANGED raised
    /\ UNCHANGED <<config, controller, sideVars, closing, link_failed,
                   attempted, camVars, self_images, self_pwm, self_average,
                   self_estimated, self_volts, images, masks, offsets, sums,
                   pwm, volts, written, db_inserted, file_logged,
                   display_started>>

\* pwm, volts = self.calculate_output(est, avg, diff)
CalcOutput ==
    /\ pc = "output"
    /\ LET r == CalculateOutput(est, avg, diff)
       IN  IF r.raised
              THEN Absorb("calculate_output")
              ELSE /\ pwm' = r.pwm
                   /\ volts' = r.volts
                   /\ pc' = "set"
                   /\ UNCHANGED <<images, masks, offsets, sums, est, avg,
                                  diff, raised>>
    /\ UNCHANGED <<config, controller, sideVars, fused, closing, link_failed,
                   starved, camVars, selfVars, written, attempted,
                   db_inserted, file_logged, display_started>>

\* set_controller that gives up once a call has failed
WriteAttemptOnce(command, failed_before) ==
    IF failed_before THEN None ELSE Some(command)

\* set_controller(pwm) keeps nothing from one call to the next: every call
\* enters its try block and, when the handle exists, calls
\* self.controller.write(str(pwm) + '\n')
WriteAttempt(command, failed_before) == Some(command)

\* err = self.set_controller(pwm): the write happens when the handle exists
\* and write() does not raise; every Exception is caught
SetController ==
    /\ pc = "set"
    /\ attempted' = WriteAttempt(pwm, link_failed = Some(TRUE))
    /\ \E ok \in BOOLEAN :
          written' = IF attempted' # None /\ controller # None /\ ok
                        THEN attempted' ELSE None
    /\ link_failed' = IF link_failed = None THEN None
                       ELSE Some(link_failed[1] \/ written' = None)
    /\ pc' = "publish"
    /\ UNCHANGED <<config, controller, sideVars, fused, closing, starved,
                   camVars, selfVars, localVars, db_inserted, file_logged,
                   display_started, raised>>

\* sample = {...}; self.pwm = pwm; ... ; self.volts = volts
Publish ==
    /\ pc = "publish"
    /\ self_pwm' = pwm
    /\ self_images' = images
    /\ self_average' = avg
    /\ self_estimated' = est
    /\ self_volts' = Some(volts)
    /\ pc' = "log_db"
    /\ UNCHANGED <<config, controller, sideVars, fused, closing, link_failed,
                   starved, camVars, offset_history, localVars, outVars>>

\* if self.MONGO_ON: doc_id = self.log_db(sample).  When the insert raises,
\* log_db's except leaves doc_id unassigned and "return doc_id" raises
\* UnboundLocalError.
LogDb ==
    /\ pc = "log_db"
    /\ IF MONGO_ON
          THEN \E ok \in BOOLEAN :
                  IF ok THEN /\ db_inserted' = TRUE
                             /\ pc' = "log_file"
                             /\ UNCHANGED <<localVars, raised>>
                        ELSE /\ Absorb("log_db")
                             /\ UNCHANGED db_inserted
          ELSE /\ pc' = "log_file"
               /\ UNCHANGED <<localVars, raised, db_inserted>>
    /\ UNCHANGED <<config, controller, sideVars, fused, closing, link_failed,
                   starved, camVars, selfVars, written, attempted,
                   file_logged, display_started>>

\* The keys of the sample that run() builds
SampleKeys == {"offsets", "estimated", "average", "differential", "pwm",
               "time", "long", "lat", "speed"}

\* The keys that log_file reads from the sample before it writes
LogFileKeys == {"time", "lat", "long", "speed", "estimate", "average", "pwm"}

\* log_file(sample) gets to self.log.write(...): self.log exists and every
\* sample[key] it reads before is there (a missing key raises KeyError, which
\* its except absorbs).  The write to an open file is taken to succeed.
LogFileWrites(keys, opened) == opened /\ LogFileKeys \subseteq keys

\* if self.LOGFILE_ON: self.log_file(sample)
LogFile ==
    /\ pc = "log_file"
    /\ IF LOGFILE_ON
          THEN file_logged' = LogFileWrites(SampleKeys, config.LOG)
          ELSE UNCHANGED file_logged
    /\ pc' = "display"
    /\ UNCHANGED <<config, controller, sideVars, fused, closing, link_failed,
                   starved, camVars, selfVars, localVars, written, attempted,
                   db_inserted, display_started, raised>>

\* if self.DISPLAY_ON: os.environ['DISPLAY']; thread.start_new_thread(...)
\* and the end of the loop body
StartDisplay ==
    /\ pc = "display"
    /\ IF DISPLAY_ON
          THEN \E env \in BOOLEAN : display_started' = env
          ELSE UNCHANGED display_started
    /\ pc' = "capture"
    /\ ResetLocals
    /\ UNCHANGED <<config, controller, sideVars, fused, closing, link_failed,
                   starved, camVars, selfVars, written, attempted,
                   db_inserted, file_logged, raised>>

CycleStages == {"capture", "filter", "find", "estimate", "output", "set",
                "publish", "log_db", "log_file", "display"}

\* The cameras on which the loop of close() calls release(), when it stops
\* at the first release() that raises
ReleaseUntilFailure(i, rel_fails, done) ==
    IF \E j \in 1 .. CAMERAS : j \in rel_fails
       THEN done \cup (i .. (CHOOSE j \in 1 .. CAMERAS :
                               /\ j \in rel_fails
                               /\ \A k \in rel_fails : j <= k))
       ELSE done \cup (i .. CAMERAS)

\* for i in range(len(self.cameras)): try: self.cameras[i].release()
\* except Exception: ...  -- the cameras on which release() is called, when
\* it raises for those of rel_fails
RECURSIVE ReleaseLoop(_, _, _)
ReleaseLoop(i, rel_fails, done) ==
    IF i > CAMERAS THEN done
    ELSE ReleaseLoop(i + 1, rel_fails, done \cup {i})

\* close(): self.controller.close() in a try of its own (it raises when the
\* handle is missing or the port fails), then the release() loop; failed
\* tells whether any of the calls raised
Close(ctl_fails, rel_fails) ==
    [controller |-> TRUE,
     cameras |-> ReleaseLoop(1, rel_fails, {}),
     failed |-> ctl_fails \/ rel_fails # {}]

\* except KeyboardInterrupt: self.close(); break.  A KeyboardInterrupt is not
\* an Exception, so no "except Exception" of a stage catches it, and
\* capture_images re-raises it before its bare except: from any statement
\* of the body it reaches this handler.  run() returns and its locals are
\* gone.
Interrupt ==
    /\ pc \in CycleStages
    /\ \E ctl_fails \in BOOLEAN, rel_fails \in SUBSET (1 .. CAMERAS) :
          closing' = Some(Close(controller = None \/ ctl_fails, rel_fails))
    /\ pc' = "shutdown"
    /\ ResetLocals
    /\ UNCHANGED <<config, controller, sideVars, fused, link_failed, starved,
                   camVars, selfVars, outVars>>

Next ==
    \/ CaptureImages
    \/ PlantFilter
    \/ FindOffset
    \/ EstimateRow
    \/ CalcOutput
    \/ SetController
    \/ Publish
    \/ LogDb
    \/ LogFile
    \/ StartDisplay
    \/ Interrupt

Spec == Init /\ [][Next]_vars

-----------------------------------------------------------------------------
(* estimate_row called again and again, its estimates recorded in fused *)

\* The (offsets, sums) that find_offset returns for the masks of one cycle
SampleInputs ==
    { <<FindOffsets(m), FindSums(m)>> :
        m \in UNION { [1 .. k -> {None} \cup {Some(p) : p \in Profiles}]
                        : k \in 0 .. CAMERAS } }

InitHistory ==
    /\ config \in Configs
    /\ self_images = [i \in 1 .. CAMERAS |-> Some(ZerosImage)]
    /\ offset_history = [k \in 1 .. NUM_AVERAGES |-> CAMERA_CENTER]
    /\ self_average = 0
    /\ self_estimated = 0
    /\ self_pwm = 0
    /\ self_volts = None
    /\ controller = IF config.SERIAL THEN Some("open") ELSE None
    /\ pc = "estimate"
    /\ images = <<>>
    /\ masks = <<>>
    /\ \E x \in SampleInputs : offsets = x[1] /\ sums = x[2]
    /\ est = 0
    /\ avg = 0
    /\ diff = 0
    /\ pwm = 0
    /\ volts = 0
    /\ written = None
    /\ db_inserted = FALSE
    /\ file_logged = FALSE
    /\ display_started = FALSE
    /\ reads = [i \in 1 .. CAMERAS |-> NoRead]
    /\ healthy = [i \in 1 .. CAMERAS |-> TRUE]
    /\ delivered = {}
    /\ raised = ""
    /\ fused = Some(<<>>)
    /\ closing = None
    /\ attempted = None
    /\ link_failed = None
    /\ starved = None
    /\ probe = None
    /\ found = None
    /\ warned = FALSE
    /\ updating = FALSE
    /\ threads = <<>>

\* The rest of a cycle and the next cycle up to find_offset: new samples
NextSamples ==
    /\ pc = "output"
    /\ fused # None
    /\ \E x \in SampleInputs : offsets' = x[1] /\ sums' = x[2]
    /\ pc' = "estimate"
    /\ UNCHANGED <<config, controller, sideVars, fused, closing, link_failed,
                   starved, camVars, selfVars, outVars, images, masks, est,
                   avg, diff, pwm, volts>>

NextHistory ==
    \/ EstimateRow
    \/ NextSamples

SpecHistory == InitHistory /\ [][NextHistory]_vars

-----------------------------------------------------------------------------
(* run() from the samples of a cycle on, with link_failed and starved
   recorded *)

InitControl ==
    /\ config \in Configs
    /\ self_images = [i \in 1 .. CAMERAS |-> Some(ZerosImage)]
    /\ offset_history = [k \in 1 .. NUM_AVERAGES |-> CAMERA_CENTER]
    /\ self_average = 0
    /\ self_estimated = 0
    /\ self_pwm = 0
    /\ self_volts = None
    /\ controller = IF config.SERIAL THEN Some("open") ELSE None
    /\ pc = "capture"
    /\ images = <<>>
    /\ masks = <<>>
    /\ offsets = <<>>
    /\ sums = <<>>
    /\ est = 0
    /\ avg = 0
    /\ diff = 0
    /\ pwm = 0
    /\ volts = 0
    /\ written = None
    /\ db_inserted = FALSE
    /\ file_logged = FALSE
    /\ display_started = FALSE
    /\ reads = [i \in 1 .. CAMERAS |-> NoRead]
    /\ healthy = [i \in 1 .. CAMERAS |-> TRUE]
    /\ delivered = {}
    /\ raised = ""
    /\ fused = None
    /\ closing = None
    /\ attempted = None
    /\ link_failed = Some(FALSE)
    /\ starved = Some(0)
    /\ probe = None
    /\ found = None
    /\ warned = FALSE
    /\ updating = FALSE
    /\ threads = <<>>

\* images = self.capture_images(); masks = self.plant_filter(images);
\* offsets, sums = self.find_offset(masks) -- the three statements in one
\* step, the per-camera records of the reads left alone
AcquireSamples ==
    /\ pc = "capture"
    /\ \E rd \in [1 .. CAMERAS -> ReadResults] :
          LET r == CaptureLoop(1, self_images, <<>>, {}, rd)
          IN  /\ self_images' = r[1]
              /\ images' = r[2]
              /\ \E made \in [1 .. Len(r[2]) ->
                                {None} \cup {Some(p) : p \in Profiles}] :
                    /\ \A k \in 1 .. Len(r[2]) : r[2][k] = None => made[k] = None
                    /\ masks' = FilterLoop(1, r[2], made, <<>>)
    /\ offsets' = FindOffsets(masks')
    /\ sums' = FindSums(masks')
    /\ pc' = "estimate"
    /\ written' = None
    /\ attempted' = None
    /\ db_inserted' = FALSE
    /\ file_logged' = FALSE
    /\ display_started' = FALSE
    /\ raised' = ""
    /\ UNCHANGED <<config, controller, sideVars, fused, closing, link_failed,
                   starved, camVars, offset_history, self_pwm, self_average,
                   self_estimated, self_volts, est, avg, diff, pwm, volts>>

NextControl ==
    \/ AcquireSamples
    \/ EstimateRow
    \/ CalcOutput
    \/ SetController
    \/ Publish
    \/ LogDb
    \/ LogFile
    \/ StartDisplay
    \/ Interrupt

SpecControl == InitControl /\ [][NextControl]_vars

-----------------------------------------------------------------------------
(* Functions of the program applied on their own, run() not started *)

programVars == <<selfVars, pc, localVars, outVars, camVars, controller,
                 fused, closing, link_failed, starved, updating, threads>>

\* The state after AgriVision(CONFIG_FILE), the configuration apart
Constructed ==
    /\ self_images = [i \in 1 .. CAMERAS |-> Some(ZerosImage)]
    /\ offset_history = [k \in 1 .. NUM_AVERAGES |-> CAMERA_CENTER]
    /\ self_average = 0
    /\ self_estimated = 0
    /\ self_pwm = 0
    /\ self_volts = None
    /\ controller = IF config.SERIAL THEN Some("open") ELSE None
    /\ pc = "capture"
    /\ images = <<>>
    /\ masks = <<>>
    /\ offsets = <<>>
    /\ sums = <<>>
    /\ est = 0
    /\ avg = 0
    /\ diff = 0
    /\ pwm = 0
    /\ volts = 0
    /\ written = None
    /\ db_inserted = FALSE
    /\ file_logged = FALSE
    /\ display_started = FALSE
    /\ reads = [i \in 1 .. CAMERAS |-> NoRead]
    /\ healthy = [i \in 1 .. CAMERAS |-> TRUE]
    /\ delivered = {}
    /\ raised = ""
    /\ fused = None
    /\ closing = None
    /\ attempted = None
    /\ link_failed = None
    /\ starved = None
    /\ warned = FALSE
    /\ updating = FALSE
    /\ threads = <<>>

\* The column sums of a mask of the given width with energy s in column c
\* (from 0) and none elsewhere
SpikeOf(width, c, s) == [k \in 1 .. width |-> IF k = c + 1 THEN s ELSE 0]

\* The column sums of a mask of the given width with energy s in every
\* column but column c (from 0), which has none; width for c is no column
DipOf(width, c, s) == [k \in 1 .. width |-> IF k = c + 1 THEN 0 ELSE s]

\* The masks find_offset is applied to, each with the width the camera is
\* configured with: every mask of up to SmallWidth columns; every one-column
\* spike, every one-column dip and every uniform mask of up to MaxWidth
\* columns; the spike of column 400 of 640, and the blank and the saturated
\* mask of 640 columns and 480 rows
FindProbes ==
    { [width |-> Len(m), column_sum |-> m] :
        m \in UNION { [1 .. w -> 0 .. MaxEnergy] : w \in 1 .. SmallWidth }
               \cup { SpikeOf(t[1], t[2], t[3]) :
                        t \in { u \in (1 .. MaxWidth) \X (0 .. MaxWidth - 1)
                                          \X (1 .. MaxEnergy + 1) :
                                  u[2] < u[1] } }
               \cup { DipOf(t[1], t[2], t[3]) :
                        t \in { u \in (1 .. MaxWidth) \X (0 .. MaxWidth)
                                          \X (0 .. MaxEnergy) :
                                  u[2] <= u[1] } }
               \cup { SpikeOf(640, 400, 1000), DipOf(640, 640, 0),
                      DipOf(640, 640, 480 * 255) } }

InitFind ==
    /\ config = CHOOSE c \in Configs : c.NUM_AVERAGES = 1
    /\ Constructed
    /\ probe \in FindProbes
    /\ found = None

\* find_offset applied to one mask
ApplyFindOffset ==
    /\ found = None
    /\ found' = Some(FindOffsetAt(probe.column_sum, CenterOf(probe.width)))
    /\ warned' = DegenerateWarningAt(probe.column_sum, probe.width)
    /\ UNCHANGED <<config, probe, programVars>>

NextFind == ApplyFindOffset

SpecFind == InitFind /\ [][NextFind]_vars

\* The arguments calculate_output is applied to: two estimates in order, one
\* average and one differential, within the offsets of a CAMERA_WIDTH mask
LawProbes ==
    { [estimate1 |-> e1, estimate2 |-> e2, average |-> a, diff |-> d] :
        e1 \in -CAMERA_CENTER .. CAMERA_CENTER,
        e2 \in -CAMERA_CENTER .. CAMERA_CENTER,
        a \in -CAMERA_CENTER .. CAMERA_CENTER,
        d \in -CAMERA_WIDTH .. CAMERA_WIDTH }

InitLaw ==
    /\ config \in Configs
    /\ NUM_AVERAGES = 1
    /\ Constructed
    /\ probe \in LawProbes
    /\ probe.estimate1 <= probe.estimate2
    /\ found = None

\* calculate_output applied to each of the two estimates
ApplyCalculateOutput ==
    /\ found = None
    /\ found' = Some(<<CalculateOutput(probe.estimate1, probe.average, probe.diff),
                       CalculateOutput(probe.estimate2, probe.average, probe.diff)>>)
    /\ UNCHANGED <<config, probe, warned, programVars>>

NextLaw == ApplyCalculateOutput

SpecLaw == InitLaw /\ [][NextLaw]_vars

-----------------------------------------------------------------------------
(* The update_display threads.  A thread is at "check" before it evaluates
   "if self.updating", at "set" between that test and "self.updating = True",
   at "render" from then to "self.updating = False", and then "done"; it is
   "skipped" when the test sent it to "return".  The interpreter may switch
   threads between any two of these statements. *)

displayIdle == <<selfVars, pc, localVars, outVars, camVars, controller,
                 fused, closing, link_failed, starved, probe, found,
                 warned>>

\* init_display has set self.updating = False; no thread started yet
InitDisplay ==
    /\ config = CHOOSE c \in Configs : c.DISPLAY_ON /\ c.NUM_AVERAGES = 1
    /\ Constructed
    /\ probe = None
    /\ found = None

\* thread.start_new_thread(self.update_display, ()): by init_display, and
\* by run() at the end of every cycle
SpawnDisplay ==
    /\ DISPLAY_ON
    /\ Len(threads) < MaxThreads
    /\ threads' = Append(threads, "check")
    /\ UNCHANGED <<config, updating, displayIdle>>

\* if self.updating: return
DisplayCheck(t) ==
    /\ threads[t] = "check"
    /\ threads' = [threads EXCEPT ![t] = IF updating THEN "skipped" ELSE "set"]
    /\ UNCHANGED <<config, updating, displayIdle>>

\* else: self.updating = True
DisplaySet(t) ==
    /\ threads[t] = "set"
    /\ updating' = TRUE
    /\ threads' = [threads EXCEPT ![t] = "render"]
    /\ UNCHANGED <<config, displayIdle>>

\* try: ... cv2.imshow(...) except Exception: ...; self.updating = False
DisplayFinish(t) ==
    /\ threads[t] = "render"
    /\ updating' = FALSE
    /\ threads' = [threads EXCEPT ![t] = "done"]
    /\ UNCHANGED <<config, displayIdle>>

NextDisplay ==
    \/ SpawnDisplay
    \/ \E t \in 1 .. Len(threads) : DisplayCheck(t)
    \/ \E t \in 1 .. Len(threads) : DisplaySet(t)
    \/ \E t \in 1 .. Len(threads) : DisplayFinish(t)

SpecDisplay == InitDisplay /\ [][NextDisplay]_vars

-----------------------------------------------------------------------------
(* Properties *)

AfterOutput == {"set", "publish", "log_db", "log_file", "display"}
AfterPublish == {"log_db", "log_file", "display"}

\* A step of capture_images
Captures == pc = "capture" /\ pc' = "filter"

\* Installations in which run never absorbs a cycle: the control law does
\* not fail and log_db is not called
NeverAbsorbs == ~ControlLawFails /\ ~MONGO_ON

\* C1: with PWM_MIN <= PWM_MAX, the command that calculate_output returns,
\* that run passes to set_controller (and that is written to the serial
\* port) and that run publishes as self.pwm lies in [PWM_MIN, PWM_MAX].
C1_CommandClamped ==
    PWM_MIN <= PWM_MAX =>
        /\ pc \in AfterOutput => (PWM_MIN <= pwm /\ pwm <= PWM_MAX)
        /\ written # None => (PWM_MIN <= written[1] /\ written[1] <= PWM_MAX)
        /\ pc \in AfterPublish => self_pwm = pwm

\* The control law's sum is above the range and the command is PWM_MAX
C1_Witness ==
    /\ pc = "publish"
    /\ RawPwm(est, avg, diff) > PWM_MAX
    /\ pwm = PWM_MAX
    /\ written = Some(PWM_MAX)

\* C2: offset_history never holds more than NUM_AVERAGES entries, and once
\* estimate_row has been called more than NUM_AVERAGES times it holds the
\* last NUM_AVERAGES estimates in the order they were appended.
C2_HistoryIsLastEstimates ==
    /\ Len(offset_history) <= NUM_AVERAGES
    /\ (fused # None /\ Len(fused[1]) > NUM_AVERAGES) =>
          offset_history = SubSeq(fused[1], Len(fused[1]) - NUM_AVERAGES + 1,
                                  Len(fused[1]))

\* A full window of estimates that are not all equal, after estimates were
\* evicted
C2_Witness ==
    /\ fused # None
    /\ NUM_AVERAGES = MaxAverages
    /\ Len(fused[1]) = MaxFused
    /\ fused[1][1] # fused[1][2]
    /\ offset_history[1] # offset_history[NUM_AVERAGES]

\* C3: when no camera yields a sample, the estimate of estimate_row is the
\* image center in the coordinates of the offsets, that is 0.
C3_FallbackIsCenterOffset ==
    (pc = "output" /\ offsets = <<>>) => est = 0

\* C4: when the control law fails, calculate_output raises nothing and
\* returns CENTER_PWM, so the cycle goes on to set_controller with it.
C4_ControlLawFailsSoft ==
    [][(pc = "output" /\ ControlLawFails /\ pc' # "shutdown")
          => (pc' = "set" /\ pwm' = CENTER_PWM /\ raised' = "")]_vars

\* C5: with Kp = Ki = Kd = 0 the command is the midpoint of
\* [PWM_MIN, PWM_MAX], 1500 for 1000 and 2000.
C5_ZeroGainsGiveMidpoint ==
    (pc = "set" /\ P_COEF = Some(0) /\ I_COEF = Some(0) /\ D_COEF = Some(0))
        => 2 * pwm = PWM_MIN + PWM_MAX

\* C6: a camera whose frame was missing in one cycle (failed read, frozen
\* frame) gets its frame delivered in the next cycle in which it returns a
\* frame that differs from its previous one (and from the zero image that
\* capture_images stores after a failure); stated where no cycle is absorbed.
C6_DegradedForOneCycle ==
    [][\A i \in 1 .. CAMERAS :
          (/\ Captures
           /\ NeverAbsorbs
           /\ reads[i].kind # "none"
           /\ i \notin delivered
           /\ reads'[i].kind = "ok"
           /\ reads'[i].bgr # reads[i].bgr
           /\ reads'[i].bgr # ZerosImage)
              => i \in delivered']_vars

\* C7: where no cycle is absorbed, a camera that has always returned a
\* frame differing from its previous one has its frame delivered, whatever
\* the other cameras did.
C7_FailureStaysWithItsCamera ==
    [][\A j \in 1 .. CAMERAS :
          (Captures /\ NeverAbsorbs /\ healthy'[j]) => j \in delivered']_vars

\* C8: capture_images returns one slot per camera, and so self.images has
\* CAMERAS entries at the start of every cycle.
C8_OneSlotPerCamera ==
    /\ pc = "filter" => Len(images) = CAMERAS
    /\ pc = "capture" => Len(self_images) = CAMERAS

\* C9: where no cycle is absorbed, a camera that returns the same frame in
\* two consecutive cycles has no frame in the second.
C9_FrozenFrameAbsent ==
    [][\A i \in 1 .. CAMERAS :
          (/\ Captures
           /\ NeverAbsorbs
           /\ reads[i].kind = "ok"
           /\ reads'[i].kind = "ok"
           /\ reads'[i].bgr = reads[i].bgr)
              => i \notin delivered']_vars

\* C10: run ends on the interrupt only: no other exception of a stage ends
\* the loop.
C10_OnlyInterruptEndsLoop ==
    pc # "crashed"

-----------------------------------------------------------------------------
(* close() and the end of run() *)

\* C11: when the interrupt reaches run()'s handler from any statement of the
\* loop body, close() calls controller.close() and release() on every
\* camera, whatever raised among those calls, and the loop is left: no
\* statement of run() executes afterwards.
C11_InterruptClosesEverything ==
    [][/\ (pc \in CycleStages /\ closing' # None) =>
            /\ pc' = "shutdown"
            /\ closing'[1].controller
            /\ closing'[1].cameras = 1 .. CAMERAS
       /\ pc = "shutdown" => UNCHANGED vars]_vars

\* The interrupt arrived after set_controller wrote, a call of close()
\* raised, and every camera was released all the same
C11_Witness ==
    /\ pc = "shutdown"
    /\ closing # None
    /\ closing[1].failed
    /\ closing[1].cameras = 1 .. CAMERAS
    /\ written # None

-----------------------------------------------------------------------------
(* set_controller across cycles *)

\* C12: set_controller raises nothing, whether or not the command gets
\* written: run() goes on to publish the cycle's outputs and to the rest of
\* the body, and every call, also one that follows a failed call, tries to
\* write the command of its own cycle.
C12_WriteFailureIsAbsorbed ==
    [][/\ (pc = "set" /\ pc' # "shutdown") =>
            /\ pc' = "publish"
            /\ raised' = ""
            /\ attempted' = Some(pwm)
            /\ written' \in {None, Some(pwm)}
       /\ (pc = "publish" /\ pc' # "shutdown") =>
            /\ pc' = "log_db"
            /\ self_pwm' = pwm
            /\ self_average' = avg
            /\ self_estimated' = est
            /\ self_volts' = Some(volts)]_vars

\* A call failed in an earlier cycle, and this cycle's command was written
\* and published
C12_Witness ==
    /\ pc = "log_db"
    /\ link_failed = Some(TRUE)
    /\ written = Some(pwm)
    /\ self_pwm = pwm

-----------------------------------------------------------------------------
(* Sustained acquisition failure *)

\* C13: once more than NUM_AVERAGES calls of estimate_row in a row got no
\* sample, every command that set_controller writes is CENTER_PWM, whatever
\* the gains.
C13_StarvedHoldsCenter ==
    (/\ pc \in AfterPublish
     /\ starved # None
     /\ starved[1] > NUM_AVERAGES
     /\ written # None) => written = Some(CENTER_PWM)

-----------------------------------------------------------------------------
(* estimate_row: the estimate and its average *)

C15_AverageIsMean ==
    pc = "output" =>
        /\ avg * Len(offset_history) = SumSeq(offset_history)
        /\ diff = est - avg

\* C15 amended: the average that estimate_row returns is the arithmetic mean
\* of the history, as it is after the append and the eviction, truncated
\* toward zero to an integer, and the differential is the estimate minus
\* that average.
C15_AverageIsTruncatedMean ==
    pc = "output" =>
        LET n == Len(offset_history)
            t == SumSeq(offset_history)
        IN  /\ t >= 0 => (n * avg <= t /\ t < n * (avg + 1))
            /\ t < 0 => (n * (avg - 1) < t /\ t <= n * avg)
            /\ diff = est - avg

\* A history whose mean is negative and not an integer
C15_Witness ==
    /\ pc = "output"
    /\ SumSeq(offset_history) < 0
    /\ SumSeq(offset_history) % Len(offset_history) # 0
    /\ offset_history[Len(offset_history)] = est

-----------------------------------------------------------------------------
(* find_offset on one mask *)

\* The profile has energy in exactly one column
IsSpike(column_sum) ==
    \E c \in 1 .. Len(column_sum) :
        /\ column_sum[c] > 0
        /\ \A k \in 1 .. Len(column_sum) : k # c => column_sum[k] = 0

\* That column, from 0
SpikeColumn(column_sum) ==
    CHOOSE c \in 0 .. Len(column_sum) - 1 : column_sum[c + 1] > 0

\* The rank of the percentile falls strictly between the two greatest order
\* statistics (for the 95th percentile: at most 20 columns)
RankInLastGap(width) ==
    100 * (width - 2) < THRESHOLD_PERCENTILE * (width - 1)

\* C16 as stated: for a mask with energy s > 0 in one column c and none
\* elsewhere, find_offset returns the offset c - CAMERA_CENTER with strength
\* s, whatever the width.
C16_SpikeIsFound ==
    (found # None /\ IsSpike(probe.column_sum)) =>
        LET c == SpikeColumn(probe.column_sum)
        IN  found[1] = Some(<<c - CenterOf(probe.width), probe.column_sum[c + 1]>>)

\* C16 amended: for such a mask find_offset returns the offset
\* c - CAMERA_CENTER with strength s when the mask has at most 20 columns
\* (the rank of the 95th percentile lies above the second greatest column
\* sum); for a wider mask the percentile is 0, every column qualifies and it
\* returns the median column (width - 1) / 2, truncated, minus CAMERA_CENTER
\* with the energy of that column.
C16_NarrowSpikeIsFound ==
    (found # None /\ IsSpike(probe.column_sum)) =>
        LET c == SpikeColumn(probe.column_sum)
            mid == (probe.width - 1) \div 2
        IN  IF RankInLastGap(probe.width)
               THEN found[1] = Some(<<c - CenterOf(probe.width),
                                      probe.column_sum[c + 1]>>)
               ELSE found[1] = Some(<<mid - CenterOf(probe.width),
                                      probe.column_sum[mid + 1]>>)

\* A spike right of the center in the widest mask in which it is found
C16_Witness ==
    /\ found # None
    /\ IsSpike(probe.column_sum)
    /\ RankInLastGap(probe.width)
    /\ ~RankInLastGap(probe.width + 1)
    /\ found[1] # None
    /\ found[1][1][1] > 0
    /\ found[1][1][2] = probe.column_sum[SpikeColumn(probe.column_sum) + 1]

\* C19: the offset that find_offset reports for a mask of the configured
\* width lies between -CAMERA_CENTER and CAMERA_WIDTH - CAMERA_CENTER.
C19_OffsetWithinFrame ==
    (found # None /\ found[1] # None) =>
        /\ -CenterOf(probe.width) <= found[1][1][1]
        /\ found[1][1][1] <= probe.width - CenterOf(probe.width)

\* The leftmost column of a mask of several columns is reported
C19_Witness ==
    /\ found # None
    /\ found[1] # None
    /\ probe.width > SmallWidth
    /\ found[1][1][1] = -CenterOf(probe.width)

-----------------------------------------------------------------------------
(* calculate_output: the voltage *)

\* C17: for PWM_MIN < PWM_MAX the voltage that calculate_output returns is
\* MIN_VOLTAGE for the command PWM_MIN and MAX_VOLTAGE for the command
\* PWM_MAX.
C17_VoltageSpansRange ==
    (pc \in AfterOutput /\ PWM_MIN < PWM_MAX) =>
        /\ pwm = PWM_MIN => volts = MIN_VOLTAGE
        /\ pwm = PWM_MAX => volts = MAX_VOLTAGE

-----------------------------------------------------------------------------
(* calculate_output: the command as a function of the estimate *)

\* calculate_output returned a command for both estimates
BothReturned == found # None /\ ~found[1][1].raised /\ ~found[1][2].raised

\* C20 as stated: for one average and one differential, the command for the
\* smaller estimate is at most the command for the greater, whatever the
\* gains.
C20_CommandMonotone ==
    BothReturned => found[1][1].pwm <= found[1][2].pwm

\* C20 amended: for one average and one differential, the command for the
\* smaller estimate is at most the command for the greater when P_COEF >= 0,
\* and at least that command when P_COEF <= 0.
C20_CommandFollowsSignOfGain ==
    BothReturned =>
        /\ P_COEF[1] >= 0 => found[1][1].pwm <= found[1][2].pwm
        /\ P_COEF[1] <= 0 => found[1][1].pwm >= found[1][2].pwm

\* A positive gain and two estimates whose commands differ
C20_Witness ==
    /\ BothReturned
    /\ P_COEF[1] > 0
    /\ probe.estimate1 < probe.estimate2
    /\ found[1][1].pwm < found[1][2].pwm

-----------------------------------------------------------------------------
(* update_display *)

\* C18: at no time are two update_display threads between
\* "self.updating = True" and "self.updating = False".
C18_OneRendererAtATime ==
    Cardinality({t \in 1 .. Len(threads) : threads[t] = "render"}) <= 1

-----------------------------------------------------------------------------
(* log_file and log_db *)

\* C21: with LOGFILE_ON and the log file open, a cycle that has executed
\* "if self.LOGFILE_ON: self.log_file(sample)" has appended its record to
\* the file.
C21_RecordPerCycle ==
    (pc = "display" /\ LOGFILE_ON /\ config.LOG) => file_logged

-----------------------------------------------------------------------------
(* find_offset: the degenerate-percentile test *)

\* Every column of the profile has the same energy
IsUniform(column_sum) ==
    \A k \in 1 .. Len(column_sum) : column_sum[k] = column_sum[1]

\* C22: for a mask whose profile is uniform (blank or saturated), the test
\* num_probable == CAMERA_WIDTH * THRESHOLD_PERCENTILE / 100.0 of find_offset
\* holds and the warning is printed.
C22_UniformMaskIsFlagged ==
    (found # None /\ IsUniform(probe.column_sum)) => warned

-----------------------------------------------------------------------------
(* log_db *)

\* C23: whether or not the insert succeeds, no exception leaves log_db: the
\* cycle goes on to "if self.LOGFILE_ON: self.log_file(sample)" and from
\* there to the display refresh.
C23_InsertFailureIsAbsorbed ==
    [][(pc = "log_db" /\ pc' # "shutdown")
          => (pc' = "log_file" /\ raised' = "")]_vars

====
